---- MODULE Spec2Model ----
(***************************************************************************)
(* Model of train.py: the epoch driver (main), the training step (train)   *)
(* and the validation step (valid), over successive invocations of the     *)
(* program that share the checkpoint kept on disk.                         *)
(*                                                                         *)
(* The network, the loss and the IoU metric are opaque: the model state is *)
(* abstracted to counters (params = optimizer updates applied, buffers =   *)
(* forward passes made in training mode, passes = completed train() calls) *)
(* and the metric values are drawn from small sets.                        *)
(***************************************************************************)
EXTENDS Integers, Sequences, FiniteSets

VARIABLES
    config,       \* config module: n_batch, n_ckpt_epoch, print_freq, split sizes
    disk,         \* checkpoint directory: NoCkpt or <<the last Checkpoint Record>>
    args,         \* parsed command line: resume, epoch
    pc,           \* position of the main thread
    start_epoch,  \* main: start_epoch
    epoch,        \* main: loop variable of the epoch loop
    model,        \* Model State (+ training flag)
    optimizer,    \* Optimizer State: number of steps applied
    grads,        \* state of the parameter gradients
    writer,       \* SummaryWriter scope: state, log_dir, scalars written
    i,            \* train/valid: batch index of enumerate(loader)
    meters,       \* the AverageMeter objects of the running train/valid call
    console,      \* the last line printed
    trace,        \* history: calls made by the epoch loop of this run
    ops,          \* history: operations of the batch in progress
    entry         \* history: snapshot taken when train/valid was entered

vars == <<config, disk, args, pc, start_epoch, epoch, model, optimizer, grads,
          writer, i, meters, console, trace, ops, entry>>

----------------------------------------------------------------------------
(* Bounds of the model *)

MaxEpoch == 4        \* no run goes past this epoch index
MaxTrain == 2        \* samples in the training split
MaxValid == 2        \* samples in the validation split
MaxBatch == 2        \* config.n_batch
MaxCkptEvery == 2    \* config.n_ckpt_epoch

PrintFreqs == {2}          \* config.print_freq
LossValues == {0, 1}       \* abstract values of loss.data[0]
IouValues  == {1}          \* abstract values of iou_mean(outputs, labels)

\* the checkpoint directory holds no record / one record
NoCkpt == <<>>

\* the value of an average that has none
Undefined == [defined |-> FALSE, sum |-> 0, count |-> 0]

NoLine == [kind |-> "none", epoch |-> 0, i |-> 0, ok |-> TRUE]

----------------------------------------------------------------------------
(* DataLoader over a split of n samples with batch size nb (drop_last off) *)

NumBatches(n, nb) == (n + nb - 1) \div nb

BatchSize(n, nb, b) == IF (b + 1) * nb <= n THEN nb ELSE n - b * nb

n_step == NumBatches(config.n_train, config.n_batch)

n_valid_step == NumBatches(config.n_valid, config.n_batch)

----------------------------------------------------------------------------
(* helper.AverageMeter *)

AverageMeter == [val |-> 0, sum |-> 0, count |-> 0]

Update(m, v, n) == [val |-> v, sum |-> m.sum + v * n, count |-> m.count + n]

\* the average, as the fraction sum/count; it has no value at count 0
Avg(m) == IF m.count = 0 THEN Undefined
          ELSE [defined |-> TRUE, sum |-> m.sum, count |-> m.count]

----------------------------------------------------------------------------
(* Model and optimizer *)

NewModel == [params |-> 0, buffers |-> 0, passes |-> 0, training |-> TRUE]

\* model(inputs): training-only behaviour (running statistics) touches the
\* buffers in training mode only
Forward(m) == IF m.training THEN [m EXCEPT !.buffers = @ + 1] ELSE m

\* the loss of a validation batch is a function of the model state and the batch
EvalLoss(m, b) == (m.params + m.buffers + b) % 2

EvalIou(m, b) == (m.params + b) % 2

\* helper.load_ckpt: restores model and optimizer, returns the recorded epoch
\* (0 when there is no checkpoint)
LoadEpoch == IF disk = NoCkpt THEN 0 ELSE disk[1].epoch

LoadModel == IF disk = NoCkpt THEN NewModel
             ELSE [params |-> disk[1].params, buffers |-> disk[1].buffers,
                   passes |-> disk[1].passes, training |-> TRUE]

LoadOptimizer == IF disk = NoCkpt THEN 0 ELSE disk[1].optimizer

\* helper.save_ckpt(model, optimizer, e)
SaveCkpt(e) == [epoch |-> e, params |-> model.params, buffers |-> model.buffers,
                passes |-> model.passes, optimizer |-> optimizer]

Scalar(tag, step, ok) ==
    [tag |-> tag, step |-> step, epoch |-> epoch, i |-> i, ok |-> ok]

Snapshot == [params |-> model.params, buffers |-> model.buffers,
             optimizer |-> optimizer, grads |-> grads]

----------------------------------------------------------------------------
Init ==
    /\ config \in [n_batch : 1..MaxBatch, n_ckpt_epoch : 1..MaxCkptEvery,
                   print_freq : PrintFreqs, n_train : 0..MaxTrain,
                   n_valid : 0..MaxValid]
    /\ disk = NoCkpt
    /\ args = [resume |-> TRUE, epoch |-> 0]
    /\ pc = "boot"
    /\ start_epoch = 0
    /\ epoch = 0
    /\ model = NewModel
    /\ optimizer = 0
    /\ grads = "none"
    /\ writer = [state |-> "none", log_dir |-> <<0, 0>>, scalars |-> <<>>]
    /\ i = 0
    /\ meters = [batch_time |-> AverageMeter, data_time |-> AverageMeter,
                 losses |-> AverageMeter, iou |-> AverageMeter]
    /\ console = NoLine
    /\ trace = <<>>
    /\ ops = <<>>
    /\ entry = [params |-> 0, buffers |-> 0, optimizer |-> 0, grads |-> "none"]

----------------------------------------------------------------------------
(* main: conditions and values of the epoch loop *)

\* the meters of a call that has not updated them yet; also stands for the
\* meters of no call at all (they are locals of train and valid)
NoMeters == [batch_time |-> AverageMeter, data_time |-> AverageMeter,
             losses |-> AverageMeter, iou |-> AverageMeter]


\* variant: range(start_epoch, args.epoch)
EndEpochIgnoringStart == args.epoch

\* range(start_epoch, args.epoch + start_epoch): the exclusive upper end
EndEpoch == args.epoch + start_epoch

\* variant: every third epoch counted from the start of the run
ValidateAfterRelative(e) == (e - start_epoch) % 3 = 2

\* if epoch % 3 == 2
ValidateAfter(e) == e % 3 = 2

\* variant: if epoch % config.n_ckpt_epoch == 0
CheckpointAfterFirst(e) == e % config.n_ckpt_epoch = 0

\* if epoch % config.n_ckpt_epoch == config.n_ckpt_epoch - 1
CheckpointAfter(e) == e % config.n_ckpt_epoch = config.n_ckpt_epoch - 1

\* variant: save_ckpt(model, optimizer, epoch)
SavedEpochOfLoop(e) == e

\* save_ckpt(model, optimizer, epoch+1): the epoch count handed over
SavedEpoch(e) == e + 1

\* variant: train without the call of model.train()
TrainModeMissing(m) == m

\* model.train() / model.eval()
TrainMode(m) == [m EXCEPT !.training = TRUE]

EvalMode(m) == [m EXCEPT !.training = FALSE]

\* variant: step = i + epoch
TrainStepUnscaled(b, e, n) == b + e

\* step = i + epoch * n_step
TrainStep(b, e, n) == b + e * n

\* step = epoch * n_step
ValidStep(e, n) == e * n

\* leaving the `with SummaryWriter(log_dir) as writer` block, on any path
CloseWriter(w) == [w EXCEPT !.state = "closed"]

Op(name) == [op |-> name, training |-> model.training]

Event(name, e) == [op |-> name, epoch |-> e, saved |-> 0]

----------------------------------------------------------------------------
(* main, lines 21-67: a new invocation of the program up to the epoch loop. *)
(* Everything held in memory by the previous invocation is gone; only the   *)
(* checkpoint on disk is carried over.                                      *)
MainSetup(resume, n) ==
    /\ pc \in {"boot", "done", "failed"}
    /\ (IF resume THEN LoadEpoch ELSE 0) + n <= MaxEpoch
    /\ args' = [resume |-> resume, epoch |-> n]
    /\ model' = IF resume THEN LoadModel ELSE NewModel
    /\ optimizer' = IF resume THEN LoadOptimizer ELSE 0
    /\ start_epoch' = IF resume THEN LoadEpoch ELSE 0
    /\ epoch' = start_epoch'
    /\ writer' = [state |-> "open", log_dir |-> <<start_epoch', n + start_epoch'>>,
                  scalars |-> <<>>]
    /\ grads' = "none"
    /\ i' = 0
    /\ meters' = NoMeters
    /\ console' = NoLine
    /\ trace' = <<>>
    /\ ops' = <<>>
    /\ entry' = [params |-> model'.params, buffers |-> model'.buffers,
                 optimizer |-> optimizer', grads |-> "none"]
    /\ pc' = "loop"
    /\ UNCHANGED <<config, disk>>

(* line 68-69 and 89-96: the loop takes the next epoch and calls train,     *)
(* which creates its meters and puts the model in training mode.            *)
TrainEnter ==
    /\ pc = "loop"
    /\ epoch < EndEpoch
    /\ meters' = NoMeters
    /\ model' = TrainMode(model)
    /\ i' = 0
    /\ ops' = <<>>
    /\ entry' = Snapshot
    /\ trace' = Append(trace, Event("train", epoch))
    /\ pc' = "t_fetch"
    /\ UNCHANGED <<config, disk, args, start_epoch, epoch, optimizer, grads,
                   writer, console>>

(* line 68, 75 and the end of the with block: the range is exhausted.       *)
LoopExit ==
    /\ pc = "loop"
    /\ ~(epoch < EndEpoch)
    /\ writer' = CloseWriter(writer)
    /\ pc' = "done"
    /\ UNCHANGED <<config, disk, args, start_epoch, epoch, model, optimizer,
                   grads, i, meters, console, trace, ops, entry>>

(* lines 97-99: the loader yields the next batch and the data time is       *)
(* recorded, or the loader is exhausted and train returns.                  *)
TrainFetch ==
    /\ pc = "t_fetch"
    /\ i < n_step
    /\ meters' = [meters EXCEPT !.data_time = Update(@, 1, 1)]
    /\ ops' = <<Op("fetch")>>
    /\ pc' = "t_forward"
    /\ UNCHANGED <<config, disk, args, start_epoch, epoch, model, optimizer,
                   grads, writer, i, console, trace, entry>>

TrainReturn ==
    /\ pc = "t_fetch"
    /\ ~(i < n_step)
    /\ model' = [model EXCEPT !.passes = @ + 1]
    /\ trace' = Append(trace, Event("train_ret", epoch))
    /\ meters' = NoMeters
    /\ pc' = "after_train"
    /\ UNCHANGED <<config, disk, args, start_epoch, epoch, optimizer, grads,
                   writer, i, console, ops, entry>>

(* lines 101-114: gradients cleared, forward pass, loss, IoU, meters.       *)
TrainForward ==
    /\ pc = "t_forward"
    /\ \E loss \in LossValues, batch_iou \in IouValues :
         meters' = [meters EXCEPT
            !.iou = Update(@, batch_iou, BatchSize(config.n_train, config.n_batch, i)),
            !.losses = Update(@, loss, BatchSize(config.n_train, config.n_batch, i))]
    /\ grads' = "zero"
    /\ model' = Forward(model)
    /\ ops' = ops \o <<Op("zero_grad"), Op("forward"), Op("loss")>>
    /\ pc' = "t_backward"
    /\ UNCHANGED <<config, disk, args, start_epoch, epoch, optimizer, writer,
                   i, console, trace, entry>>

(* variant: loss.backward() without optimizer.step()                       *)
TrainBackwardNoStep ==
    /\ pc = "t_backward"
    /\ grads' = "computed"
    /\ ops' = ops \o <<Op("backward")>>
    /\ pc' = "t_log"
    /\ UNCHANGED <<config, disk, args, start_epoch, epoch, writer, i, meters,
                   console, trace, entry, model, optimizer>>

(* lines 116-117: loss.backward(); optimizer.step()                         *)
TrainBackward ==
    /\ pc = "t_backward"
    /\ grads' = "computed"
    /\ model' = [model EXCEPT !.params = @ + 1]
    /\ optimizer' = optimizer + 1
    /\ ops' = ops \o <<Op("backward"), Op("step")>>
    /\ pc' = "t_log"
    /\ UNCHANGED <<config, disk, args, start_epoch, epoch, writer, i, meters,
                   console, trace, entry>>

(* lines 119-136: batch time, the four scalars, the progress line.          *)
TrainLog ==
    /\ pc = "t_log"
    /\ meters' = [meters EXCEPT !.batch_time = Update(@, 1, 1)]
    /\ LET step == TrainStep(i, epoch, n_step) IN
         writer' = [writer EXCEPT !.scalars = @ \o
            << Scalar("training/loss", step, TRUE),
               Scalar("training/batch_elapse", step, TRUE),
               Scalar("training/batch_iou", step, TRUE),
               Scalar("training/epoch_iou", step, Avg(meters.iou) # Undefined) >>]
    /\ console' = IF i % config.print_freq = 0
                  THEN [kind |-> "train", epoch |-> epoch, i |-> i,
                        ok |-> /\ Avg(meters'.batch_time) # Undefined
                               /\ Avg(meters.data_time) # Undefined
                               /\ Avg(meters.losses) # Undefined
                               /\ Avg(meters.iou) # Undefined]
                  ELSE console
    /\ ops' = Append(ops, Op("summary"))
    /\ i' = i + 1
    /\ pc' = "t_fetch"
    /\ UNCHANGED <<config, disk, args, start_epoch, epoch, model, optimizer,
                   grads, trace, entry>>

(* line 70 false: no validation for this epoch.                             *)
SkipValid ==
    /\ pc = "after_train"
    /\ ~ValidateAfter(epoch)
    /\ pc' = "ckpt"
    /\ UNCHANGED <<config, disk, args, start_epoch, epoch, model, optimizer,
                   grads, writer, i, meters, console, trace, ops, entry>>

(* lines 70-71 and 140-143: valid is called; it creates its two meters and  *)
(* puts the model in evaluation mode (valid has no timing meters).          *)
ValidEnter ==
    /\ pc = "after_train"
    /\ ValidateAfter(epoch)
    /\ meters' = NoMeters
    /\ model' = EvalMode(model)
    /\ i' = 0
    /\ ops' = <<>>
    /\ entry' = Snapshot
    /\ trace' = Append(trace, Event("valid", epoch))
    /\ pc' = "v_fetch"
    /\ UNCHANGED <<config, disk, args, start_epoch, epoch, optimizer, grads,
                   writer, console>>

(* variant: a validation batch that also runs backward and optimizer.step  *)
ValidBatchUpdating ==
    /\ pc = "v_fetch"
    /\ i < n_valid_step
    /\ model' = [Forward(model) EXCEPT !.params = @ + 1]
    /\ optimizer' = optimizer + 1
    /\ meters' = [meters EXCEPT
          !.iou = Update(@, EvalIou(model, i),
                         BatchSize(config.n_valid, config.n_batch, i)),
          !.losses = Update(@, EvalLoss(model, i),
                            BatchSize(config.n_valid, config.n_batch, i))]
    /\ ops' = ops \o <<Op("fetch"), Op("forward"), Op("loss")>>
    /\ i' = i + 1
    /\ UNCHANGED <<config, disk, args, pc, start_epoch, epoch,
                   grads, writer, console, trace, entry>>

(* lines 144-157: one validation batch: forward pass, loss, IoU, meters.    *)
ValidBatch ==
    /\ pc = "v_fetch"
    /\ i < n_valid_step
    /\ model' = Forward(model)
    /\ meters' = [meters EXCEPT
          !.iou = Update(@, EvalIou(model, i),
                         BatchSize(config.n_valid, config.n_batch, i)),
          !.losses = Update(@, EvalLoss(model, i),
                            BatchSize(config.n_valid, config.n_batch, i))]
    /\ ops' = ops \o <<Op("fetch"), Op("forward"), Op("loss")>>
    /\ i' = i + 1
    /\ UNCHANGED <<config, disk, args, pc, start_epoch, epoch, optimizer,
                   grads, writer, console, trace, entry>>

(* lines 158-168: the loader is exhausted: the two scalars and the summary  *)
(* line are written from the meters' averages, and valid returns.           *)
ValidReturn ==
    /\ pc = "v_fetch"
    /\ ~(i < n_valid_step)
    /\ LET step == ValidStep(epoch, n_step) IN
         writer' = [writer EXCEPT !.scalars = @ \o
            << Scalar("CV/loss", step, Avg(meters.losses) # Undefined),
               Scalar("CV/epoch_iou", step, Avg(meters.iou) # Undefined) >>]
    /\ console' = [kind |-> "valid", epoch |-> epoch, i |-> i,
                   ok |-> /\ Avg(meters.losses) # Undefined
                          /\ Avg(meters.iou) # Undefined]
    /\ trace' = Append(trace, Event("valid_ret", epoch))
    /\ meters' = NoMeters
    /\ pc' = "ckpt"
    /\ UNCHANGED <<config, disk, args, start_epoch, epoch, model, optimizer,
                   grads, i, ops, entry>>

(* lines 73-74: the checkpoint of this epoch, then the loop moves on.       *)
Checkpoint ==
    /\ pc = "ckpt"
    /\ CheckpointAfter(epoch)
    /\ disk' = <<SaveCkpt(SavedEpoch(epoch))>>
    /\ trace' = Append(trace, [op |-> "save", epoch |-> epoch,
                                saved |-> SavedEpoch(epoch)])
    /\ epoch' = epoch + 1
    /\ pc' = "loop"
    /\ UNCHANGED <<config, args, start_epoch, model, optimizer, grads, writer,
                   i, meters, console, ops, entry>>

SkipCheckpoint ==
    /\ pc = "ckpt"
    /\ ~CheckpointAfter(epoch)
    /\ epoch' = epoch + 1
    /\ pc' = "loop"
    /\ UNCHANGED <<config, disk, args, start_epoch, model, optimizer, grads,
                   writer, i, meters, console, trace, ops, entry>>

(* variant: the writer is not used as a context manager                    *)
RaiseWithoutRelease ==
    /\ \/ pc \in {"t_fetch", "t_forward", "t_backward", "t_log", "v_fetch"}
       \/ pc = "ckpt" /\ CheckpointAfter(epoch)
    /\ trace' = Append(trace, Event("raise", epoch))
    /\ meters' = NoMeters
    /\ pc' = "failed"
    /\ UNCHANGED <<config, disk, args, start_epoch, epoch, model, optimizer,
                   grads, i, console, ops, entry, writer>>

(* lines 63-75: train, valid or save_ckpt raises. Nothing in main catches   *)
(* it: the with block is left, which closes the writer, and main ends with  *)
(* the exception. save_ckpt is taken to write nothing when it raises.       *)
Raise ==
    /\ \/ pc \in {"t_fetch", "t_forward", "t_backward", "t_log", "v_fetch"}
       \/ pc = "ckpt" /\ CheckpointAfter(epoch)
    /\ writer' = CloseWriter(writer)
    /\ trace' = Append(trace, Event("raise", epoch))
    /\ meters' = NoMeters
    /\ pc' = "failed"
    /\ UNCHANGED <<config, disk, args, start_epoch, epoch, model, optimizer,
                   grads, i, console, ops, entry>>

Next ==
    \/ \E resume \in BOOLEAN, n \in 0..MaxEpoch : MainSetup(resume, n)
    \/ TrainEnter
    \/ LoopExit
    \/ TrainFetch
    \/ TrainReturn
    \/ TrainForward
    \/ TrainBackward
    \/ TrainLog
    \/ SkipValid
    \/ ValidEnter
    \/ ValidBatch
    \/ ValidReturn
    \/ Checkpoint
    \/ SkipCheckpoint
    \/ Raise

Spec == Init /\ [][Next]_vars

----------------------------------------------------------------------------
(* Reading the history of a run *)

Calls(name) == SelectSeq(trace, LAMBDA ev : ev.op = name)

Last(sq) == sq[Len(sq)]

Names(sq) == [k \in 1..Len(sq) |-> sq[k].op]

InTrain == pc \in {"t_fetch", "t_forward", "t_backward", "t_log"}

BatchOps == <<"fetch", "zero_grad", "forward", "loss", "backward", "step", "summary">>

IsPrefix(a, b) == Len(a) <= Len(b) /\ \A k \in 1..Len(a) : a[k] = b[k]

TrainingScalars == SelectSeq(writer.scalars, LAMBDA r : r.tag = "training/loss")

----------------------------------------------------------------------------
\* C1: a run started at epoch E for R requested epochs calls train for the
\* epochs E, E+1, ... in increasing order and for no other epoch, never more
\* than R times, and exactly R times (E .. E+R-1) when the run completes.
C1_TrainsRequestedEpochs ==
    LET t == Calls("train") IN
    /\ \A k \in 1..Len(t) : t[k].epoch = start_epoch + k - 1
    /\ Len(t) <= args.epoch
    /\ pc = "done" => Len(t) = args.epoch

C1_Witness ==
    /\ pc = "done"
    /\ start_epoch > 0
    /\ args.epoch >= 2
    /\ Len(Calls("train")) = 2

\* C2: valid is called exactly once for every epoch with epoch % 3 = 2 and
\* never for another epoch; each call directly follows the return of the
\* same epoch's train and precedes the next epoch's train.
C2_ValidationEveryThirdEpoch ==
    /\ \A k \in 1..Len(trace) :
          trace[k].op = "valid" =>
             /\ trace[k].epoch % 3 = 2
             /\ k > 1
             /\ trace[k-1] = Event("train_ret", trace[k].epoch)
             /\ \A j \in 1..Len(trace) :
                   (trace[j].op = "train" /\ trace[j].epoch > trace[k].epoch) => j > k
    /\ \A k \in 1..Len(trace) :
          (trace[k].op = "train_ret" /\ trace[k].epoch % 3 = 2 /\ k < Len(trace)) =>
             trace[k+1] = Event("valid", trace[k].epoch)
    /\ \A j, k \in 1..Len(trace) :
          (trace[j].op = "valid" /\ trace[k].op = "valid" /\ j # k) =>
             trace[j].epoch # trace[k].epoch
    /\ (pc = "ckpt" /\ epoch % 3 = 2) => Last(trace) = Event("valid_ret", epoch)

C2_Witness ==
    /\ pc = "t_fetch"
    /\ start_epoch = 2
    /\ epoch = 3
    /\ Len(Calls("valid")) = 1

\* C3: with checkpoint interval N, a checkpoint is saved on the epochs with
\* epoch % N = N-1 and on no other, at most once per epoch, and the epoch
\* count each save persists is that epoch's index + 1.
C3_CheckpointEveryNthEpoch ==
    /\ \A k \in 1..Len(trace) :
          trace[k].op = "save" =>
             /\ trace[k].epoch % config.n_ckpt_epoch = config.n_ckpt_epoch - 1
             /\ trace[k].saved = trace[k].epoch + 1
             /\ \A j \in 1..Len(trace) :
                   (trace[j].op = "save" /\ j # k) => trace[j].epoch # trace[k].epoch
    /\ (trace # <<>> /\ Last(trace).op = "save") =>
          (disk # NoCkpt /\ disk[1].epoch = Last(trace).epoch + 1)
    \* every epoch the loop has moved past was saved iff it is an Nth epoch
    /\ \A e \in start_epoch..(epoch - 1) :
          (pc # "boot" /\ e % config.n_ckpt_epoch = config.n_ckpt_epoch - 1) =>
             \E k \in 1..Len(trace) : trace[k].op = "save" /\ trace[k].epoch = e

C3_Witness ==
    /\ pc = "done"
    /\ config.n_ckpt_epoch = 2
    /\ start_epoch = 0
    /\ Names(Calls("save")) = <<"save", "save">>
    /\ Last(Calls("save")).saved = 4

\* C4: every Checkpoint Record holds an epoch index equal to the number of
\* training epochs applied to the model state it stores, across fresh,
\* resumed and aborted runs, and a run resumed from a record with epoch
\* index C trains epoch C first: at the head of the epoch loop the model
\* has had exactly `epoch` training passes.
C4_CheckpointEpochIsEpochsApplied ==
    /\ disk # NoCkpt =>
          /\ disk[1].epoch = disk[1].passes
          /\ disk[1].params = disk[1].epoch * n_step
          /\ disk[1].optimizer = disk[1].params
    /\ pc = "loop" => model.passes = epoch /\ model.params = epoch * n_step
    /\ trace # <<>> => trace[1] = Event("train", start_epoch)
    /\ (pc # "boot" /\ trace = <<>>) => epoch = start_epoch

C4_Witness ==
    /\ args.resume
    /\ start_epoch = 1
    /\ pc = "failed"
    /\ epoch = 3
    /\ disk # NoCkpt
    /\ disk[1].epoch = 3
    /\ n_step = 2

\* C5: when train, valid or save_ckpt raises, the run ends there: main ends
\* with the exception, nothing is trained, validated or saved after it, no
\* checkpoint is written for the failed epoch, and the writer scope is
\* closed; the scope is closed on normal completion too, so it is closed in
\* every terminal state of a run.
C5_AbortReleasesWriter ==
    /\ pc \in {"done", "failed"} => writer.state = "closed"
    /\ pc \notin {"boot", "done", "failed"} => writer.state = "open"
    /\ \A k \in 1..Len(trace) :
          trace[k].op = "raise" => (k = Len(trace) /\ pc = "failed")
    /\ pc = "failed" =>
          /\ trace # <<>>
          /\ Last(trace) = Event("raise", epoch)
          /\ \A k \in 1..Len(trace) :
                trace[k].op = "save" => trace[k].epoch < epoch
          /\ Calls("save") # <<>> =>
                /\ disk = <<[epoch |-> Last(Calls("save")).saved,
                            params |-> disk[1].params, buffers |-> disk[1].buffers,
                            passes |-> disk[1].passes,
                            optimizer |-> disk[1].optimizer]>>
                /\ disk[1].epoch <= epoch
                /\ disk[1].passes <= model.passes
    /\ pc = "done" => Calls("raise") = <<>>

C5_Witness ==
    /\ pc = "failed"
    /\ writer.state = "closed"
    /\ epoch = 1
    /\ start_epoch = 0
    /\ config.n_ckpt_epoch = 1
    /\ Last(Calls("train_ret")).epoch = 1
    /\ disk[1].epoch = 1
    /\ args.epoch = 3

\* C6: a call of train over B batches that returns has taken each batch
\* once (indices 0..B-1 in order) and applied B optimizer updates, one per
\* batch; within a batch the order is gradient clear, forward and loss,
\* backward, one optimizer update, then the batch's summary records.
C6_OneUpdatePerBatchInOrder ==
    /\ InTrain =>
          /\ IsPrefix(Names(ops), BatchOps)
          /\ i <= n_step
          /\ pc = "t_fetch" => (ops = <<>> /\ i = 0) \/ Names(ops) = BatchOps
          /\ pc = "t_forward" => Len(ops) = 1
          /\ pc = "t_backward" => Len(ops) = 4
          /\ pc = "t_log" => Len(ops) = 6
          /\ LET done == IF pc = "t_log" THEN i + 1 ELSE i IN
                /\ model.params = entry.params + done
                /\ optimizer = entry.optimizer + done
          /\ LET mine == SelectSeq(TrainingScalars, LAMBDA r : r.epoch = epoch) IN
                /\ Len(mine) = i
                /\ \A k \in 1..Len(mine) : mine[k].i = k - 1
    /\ pc = "after_train" =>
          /\ i = n_step
          /\ model.params = entry.params + n_step
          /\ optimizer = entry.optimizer + n_step
          /\ Len(SelectSeq(TrainingScalars, LAMBDA r : r.epoch = epoch)) = n_step
          /\ n_step > 0 => (Names(ops) = BatchOps /\ grads = "computed")

C6_Witness ==
    /\ pc = "after_train"
    /\ n_step = 2
    /\ model.params = entry.params + 2
    /\ entry.params = 2

\* C7: valid makes no gradient clear, no backward pass and no optimizer
\* step; during the call and on return the parameters, the buffers, the
\* gradients and the optimizer state are those of the call's entry, so the
\* loss and IoU of every validation batch are the same before and after.
C7_ValidationLeavesModelUnchanged ==
    (pc = "v_fetch" \/ (pc = "ckpt" /\ Last(trace).op = "valid_ret")) =>
       /\ Snapshot = entry
       /\ \A k \in 1..Len(ops) : ops[k].op \in {"fetch", "forward", "loss"}
       /\ Len(ops) = 3 * i
       /\ \A b \in 0..(n_valid_step - 1) :
             /\ EvalLoss(model, b) = EvalLoss(entry, b)
             /\ EvalIou(model, b) = EvalIou(entry, b)

C7_Witness ==
    /\ pc = "ckpt"
    /\ Last(trace).op = "valid_ret"
    /\ i = 2
    /\ model.params > 0
    /\ Snapshot = entry

\* C8: a training record of batch i of epoch e carries the step
\* i + e * n_step; over the records of a run the step never decreases and
\* is shared only by the records of one batch; the validation records of
\* epoch e carry the step e * n_step.
C8_GlobalStepMonotonic ==
    LET sc == writer.scalars IN
    /\ \A k \in 1..Len(sc) :
          sc[k].step = IF sc[k].tag \in {"CV/loss", "CV/epoch_iou"}
                       THEN sc[k].epoch * n_step
                       ELSE sc[k].i + sc[k].epoch * n_step
    /\ \A j, k \in 1..Len(TrainingScalars) :
          j < k => TrainingScalars[j].step < TrainingScalars[k].step
    /\ Len(sc) = 4 * Len(TrainingScalars) + 2 * Len(Calls("valid_ret"))

C8_Witness ==
    /\ n_step = 2
    /\ start_epoch = 1
    /\ Len(TrainingScalars) = 6
    /\ Len(Calls("valid_ret")) = 1
    /\ Last(TrainingScalars).step = 7

\* C9: train and valid start with fresh meters and no average is read while
\* its meter's count is 0, for any number of batches including zero: every
\* scalar written and every line printed from an average has a value.
C9_NoAverageReadAtCountZero ==
    /\ (pc \in {"t_fetch", "v_fetch"} /\ i = 0) => meters = NoMeters
    /\ \A k \in 1..Len(writer.scalars) : writer.scalars[k].ok
    /\ console.ok

\* C10: every training batch runs with the model in training mode and every
\* validation batch with the model in evaluation mode; valid leaves the
\* model in evaluation mode and the next train sets training mode again.
C10_ModeMatchesStep ==
    /\ InTrain => model.training /\ \A k \in 1..Len(ops) : ops[k].training
    /\ pc = "v_fetch" => ~model.training /\ \A k \in 1..Len(ops) : ~ops[k].training
    /\ (pc \in {"ckpt", "loop"} /\ trace # <<>> /\ Last(trace).op = "valid_ret")
          => ~model.training

C10_Witness ==
    /\ pc = "t_log"
    /\ epoch = 3
    /\ start_epoch = 0
    /\ Len(Calls("valid_ret")) = 1
    /\ model.training

====
